---- MODULE Spec2Model ----
(***************************************************************************)
(* Model of the task-list HTTP handlers of main.go: the tasks table of     *)
(* the SQLite store, its AUTOINCREMENT sequence, the App mutex, and the    *)
(* handler goroutines AddTask, CompleteTask, DeleteTask, EditTask,         *)
(* GetTasks and GetCompletedTasks, each followed by renderTasks.           *)
(***************************************************************************)
EXTENDS Integers, Sequences, FiniteSets

VARIABLES tasks, seq, mu, pc, req, err, result, rows, resp, served

vars == <<tasks, seq, mu, pc, req, err, result, rows, resp, served>>

(* ---------------------------- bounds ----------------------------------- *)

\* Largest row id the model lets the store assign.
MaxId == 2

\* Largest number of requests the server handles in one behaviour.
MaxReq == 3

\* Handler goroutines that may run at the same time.
Procs == {"g1", "g2"}

\* Form values offered for the text fields "task" and "newTask".
Texts == {"", "a", "b"}

\* Form values offered for "completed" and "showCompleted".
Flags == {"true", "false"}

\* Form values offered for "taskId", as character sequences.
TaskIds == {<<"1">>, <<"0", "2">>, <<"x">>}

Methods == {"POST", "GET"}

(* ------------------------- values and helpers -------------------------- *)

StatusOK == 200
StatusBadRequest == 400
StatusMethodNotAllowed == 405
StatusInternalServerError == 500

Nil == "nil"
StoreError == "StoreError"
RenderError == "RenderError"

NoResult == [LastInsertId |-> 0, RowsAffected |-> 0]
NoResp == [status |-> 0, body |-> <<>>, error |-> ""]
NoReq == [handler |-> "none", task |-> "", taskId |-> <<>>, completed |-> FALSE,
          showCompleted |-> FALSE]

Digits == {"0", "1", "2", "3", "4", "5", "6", "7", "8", "9"}

DigitVal(c) ==
    CASE c = "0" -> 0 [] c = "1" -> 1 [] c = "2" -> 2 [] c = "3" -> 3
      [] c = "4" -> 4 [] c = "5" -> 5 [] c = "6" -> 6 [] c = "7" -> 7
      [] c = "8" -> 8 [] c = "9" -> 9

DigitChar(n) ==
    CASE n = 0 -> "0" [] n = 1 -> "1" [] n = 2 -> "2" [] n = 3 -> "3"
      [] n = 4 -> "4" [] n = 5 -> "5" [] n = 6 -> "6" [] n = 7 -> "7"
      [] n = 8 -> "8" [] n = 9 -> "9"

Max(a, b) == IF a >= b THEN a ELSE b

SetMax(S) == CHOOSE x \in S : \A y \in S : y <= x

\* The task row as the Go struct Task: ID, Task text, Completed flag.
Task(id, text, completed) == [ID |-> id, Task |-> text, Completed |-> completed]

\* go-sqlite3 binds a Go bool as the integer 1 or 0.
BoolToInt(b) == IF b THEN 1 ELSE 0

\* rows.Scan into a bool field: a stored integer is true when it is not 0.
ScanBool(n) == n # 0

\* A form flag is true exactly when its text is "true".
FormBool(s) == s = "true"

RECURSIVE DecimalValue(_)
DecimalValue(s) ==
    IF s = <<>> THEN 0
    ELSE 10 * DecimalValue(SubSeq(s, 1, Len(s) - 1)) + DigitVal(s[Len(s)])

\* The id column has INTEGER affinity: a text parameter compared with it is
\* converted to a number when it is a well-formed integer, and otherwise
\* stays text, which equals no integer.
\* ToNumeric is the set of integers the text converts to: one or none.
ToNumeric(s) ==
    IF s # <<>> /\ \A i \in 1..Len(s) : s[i] \in Digits
    THEN {DecimalValue(s)}
    ELSE {}

\* WHERE id = ? for a stored row id and the taskId form value.
IdMatches(id, taskId) == id \in ToNumeric(taskId)

\* template: {{.ID}} prints the int64 in decimal.
RECURSIVE FormatInt(_)
FormatInt(n) ==
    IF n < 10 THEN <<DigitChar(n)>>
    ELSE Append(FormatInt(n \div 10), DigitChar(n % 10))

(* --------------------------- store statements -------------------------- *)

RowIds(t) == {r.id : r \in t}

\* Variant: a plain INTEGER PRIMARY KEY without AUTOINCREMENT, which takes
\* one more than the largest id now in the table.
NextRowIdNoAutoincrement(t, s) == (IF t = {} THEN 0 ELSE SetMax(RowIds(t))) + 1

\* id INTEGER PRIMARY KEY AUTOINCREMENT: one more than the largest id the
\* table has ever held, which the store keeps in its sequence.
NextRowId(t, s) == Max(s, IF t = {} THEN 0 ELSE SetMax(RowIds(t))) + 1

\* Variant: the column default is 1, so a new task starts completed.
InsertTaskDefaultCompleted(t, s, text) ==
    t \cup {[id |-> NextRowId(t, s), task |-> text, completed |-> 1]}

\* INSERT INTO tasks (task) VALUES (?), completed DEFAULT 0.
InsertTask(t, s, text) == t \cup {[id |-> NextRowId(t, s), task |-> text, completed |-> 0]}

\* Variant: the statement flips the stored flag instead of setting it.
UpdateCompletedToggle(t, completed, taskId) ==
    {IF IdMatches(r.id, taskId) THEN [r EXCEPT !.completed = 1 - r.completed] ELSE r : r \in t}

\* Variant: the statement has no WHERE clause.
UpdateCompletedNoWhere(t, completed, taskId) ==
    {[r EXCEPT !.completed = BoolToInt(completed)] : r \in t}

\* UPDATE tasks SET completed = ? WHERE id = ?
UpdateCompleted(t, completed, taskId) ==
    {IF IdMatches(r.id, taskId)
        THEN [r EXCEPT !.completed = BoolToInt(completed)]
        ELSE r : r \in t}

\* Variant: the row is replaced, so its completed flag falls back to the default.
UpdateTaskReplace(t, text, taskId) ==
    {IF IdMatches(r.id, taskId) THEN [r EXCEPT !.task = text, !.completed = 0] ELSE r : r \in t}

\* UPDATE tasks SET task = ? WHERE id = ?
UpdateTask(t, text, taskId) ==
    {IF IdMatches(r.id, taskId) THEN [r EXCEPT !.task = text] ELSE r : r \in t}

\* DELETE FROM tasks WHERE id = ?
DeleteRow(t, taskId) == {r \in t : ~IdMatches(r.id, taskId)}

\* Rows a statement with WHERE id = ? touches.
Affected(t, taskId) == Cardinality({r \in t : IdMatches(r.id, taskId)})

RECURSIVE OrderByIdDesc(_)
OrderByIdDesc(S) ==
    IF S = {} THEN <<>>
    ELSE LET top == CHOOSE r \in S : \A o \in S : o.id <= r.id
         IN <<top>> \o OrderByIdDesc(S \ {top})

\* SELECT id, task, completed FROM tasks WHERE completed = 1|0 ORDER BY id DESC
SelectByCompleted(t, completed) ==
    OrderByIdDesc({r \in t : r.completed = BoolToInt(completed)})

\* The rows.Next / rows.Scan loop: each row becomes a Task value.
ScanRows(rs) == [i \in 1..Len(rs) |-> Task(rs[i].id, rs[i].task, ScanBool(rs[i].completed))]

\* One <li> of the taskList template for a Task.
RenderItem(t) ==
    [taskId |-> FormatInt(t.ID),
     completed |-> IF ~t.Completed THEN "true" ELSE "false",
     showCompleted |-> IF t.Completed THEN "true" ELSE "false",
     checked |-> t.Completed,
     text |-> t.Task]

\* ExecuteTemplate(response, "taskList", tasks)
RenderTaskList(ts) == [i \in 1..Len(ts) |-> RenderItem(ts[i])]

(* ------------------------------ state ---------------------------------- *)

Labels == {"idle", "lock", "exec", "rlock", "query", "runlock", "return"}

Init ==
    /\ tasks = {}
    /\ seq = 0
    /\ mu = FALSE
    /\ pc = [p \in Procs |-> "idle"]
    /\ req = [p \in Procs |-> NoReq]
    /\ err = [p \in Procs |-> Nil]
    /\ result = [p \in Procs |-> NoResult]
    /\ rows = [p \in Procs |-> <<>>]
    /\ resp = [p \in Procs |-> NoResp]
    /\ served = 0

\* The server accepts a request on a fresh goroutine.
Accept(p) ==
    /\ pc[p] = "idle"
    /\ served < MaxReq
    /\ served' = served + 1

\* http.Error(w, message, status) and return: the response is written, the
\* handler's locals are gone.
Return(p, status, message) ==
    /\ resp' = [resp EXCEPT ![p] = [status |-> status, body |-> <<>>, error |-> message]]
    /\ pc' = [pc EXCEPT ![p] = "return"]
    /\ req' = [req EXCEPT ![p] = NoReq]
    /\ err' = [err EXCEPT ![p] = Nil]
    /\ result' = [result EXCEPT ![p] = NoResult]
    /\ rows' = [rows EXCEPT ![p] = <<>>]

\* The handler goes on to its store statement with its form values.
Proceed(p, r, label) ==
    /\ req' = [req EXCEPT ![p] = r]
    /\ pc' = [pc EXCEPT ![p] = label]
    /\ UNCHANGED <<err, result, rows, resp>>

\* Inserts accepted and not yet executed.
PendingInserts ==
    Cardinality({q \in Procs : req[q].handler = "AddTask" /\ pc[q] \in {"lock", "exec"}})

(* ------------------------------ handlers ------------------------------- *)

\* Variant: AddTask renders the completed list.
RenderFlagAddCompleted(r) ==
    CASE r.handler = "AddTask" -> TRUE
      [] r.handler = "GetTasks" -> FALSE
      [] r.handler = "GetCompletedTasks" -> TRUE
      [] OTHER -> r.showCompleted

\* The completed argument each handler passes to renderTasks.
RenderFlag(r) ==
    CASE r.handler = "AddTask" -> FALSE
      [] r.handler = "GetTasks" -> FALSE
      [] r.handler = "GetCompletedTasks" -> TRUE
      [] OTHER -> r.showCompleted

\* The call renderTasks(response, completed): inside it the handler's form
\* values are out of scope, only the completed argument is.
RenderCall(r) == [NoReq EXCEPT !.handler = r.handler, !.showCompleted = RenderFlag(r)]

\* Variant: AddTask without the empty-task check.
AddTaskUnchecked(p, method, wellFormed, task) ==
    /\ Accept(p)
    /\ UNCHANGED <<tasks, seq, mu>>
    /\ IF method # "POST"
         THEN Return(p, StatusMethodNotAllowed, "Invalid request method")
       ELSE IF ~wellFormed
         THEN Return(p, StatusBadRequest, "Error parsing form")
       ELSE /\ seq + PendingInserts < MaxId
            /\ Proceed(p, [NoReq EXCEPT !.handler = "AddTask", !.task = task], "lock")

\* AddTask up to mu.Lock: method check, ParseForm, empty-task check.
AddTask(p, method, wellFormed, task) ==
    /\ Accept(p)
    /\ UNCHANGED <<tasks, seq, mu>>
    /\ IF method # "POST"
         THEN Return(p, StatusMethodNotAllowed, "Invalid request method")
       ELSE IF ~wellFormed
         THEN Return(p, StatusBadRequest, "Error parsing form")
       ELSE IF task = ""
         THEN Return(p, StatusBadRequest, "Task cannot be empty")
       ELSE /\ seq + PendingInserts < MaxId
            /\ Proceed(p, [NoReq EXCEPT !.handler = "AddTask", !.task = task], "lock")

\* CompleteTask up to mu.Lock: method check, ParseForm, form values.
CompleteTask(p, method, wellFormed, taskId, isCompleted, showCompleted) ==
    /\ Accept(p)
    /\ UNCHANGED <<tasks, seq, mu>>
    /\ IF method # "POST"
         THEN Return(p, StatusMethodNotAllowed, "Invalid request method")
       ELSE IF ~wellFormed
         THEN Return(p, StatusBadRequest, "Error parsing form")
       ELSE Proceed(p, [NoReq EXCEPT !.handler = "CompleteTask", !.taskId = taskId,
                                     !.completed = FormBool(isCompleted),
                                     !.showCompleted = FormBool(showCompleted)], "lock")

\* DeleteTask up to mu.Lock.
DeleteTask(p, method, wellFormed, taskId, showCompleted) ==
    /\ Accept(p)
    /\ UNCHANGED <<tasks, seq, mu>>
    /\ IF method # "POST"
         THEN Return(p, StatusMethodNotAllowed, "Invalid request method")
       ELSE IF ~wellFormed
         THEN Return(p, StatusBadRequest, "Error parsing form")
       ELSE Proceed(p, [NoReq EXCEPT !.handler = "DeleteTask", !.taskId = taskId,
                                     !.showCompleted = FormBool(showCompleted)], "lock")

\* EditTask up to mu.Lock: method check, ParseForm, empty-newTask check.
EditTask(p, method, wellFormed, taskId, newTask, showCompleted) ==
    /\ Accept(p)
    /\ UNCHANGED <<tasks, seq, mu>>
    /\ IF method # "POST"
         THEN Return(p, StatusMethodNotAllowed, "Invalid request method")
       ELSE IF ~wellFormed
         THEN Return(p, StatusBadRequest, "Error parsing form")
       ELSE IF newTask = ""
         THEN Return(p, StatusBadRequest, "Task cannot be empty")
       ELSE Proceed(p, [NoReq EXCEPT !.handler = "EditTask", !.taskId = taskId,
                                     !.task = newTask,
                                     !.showCompleted = FormBool(showCompleted)], "lock")

\* GetTasks: straight to renderTasks(w, false).
GetTasks(p) ==
    /\ Accept(p)
    /\ UNCHANGED <<tasks, seq, mu>>
    /\ Proceed(p, RenderCall([NoReq EXCEPT !.handler = "GetTasks"]), "rlock")

\* GetCompletedTasks: straight to renderTasks(response, true).
GetCompletedTasks(p) ==
    /\ Accept(p)
    /\ UNCHANGED <<tasks, seq, mu>>
    /\ Proceed(p, RenderCall([NoReq EXCEPT !.handler = "GetCompletedTasks"]), "rlock")

\* Variant: the handler runs its statement without waiting for the lock.
HandlerLockNoWait(p) ==
    /\ pc[p] = "lock"
    /\ mu' = TRUE
    /\ pc' = [pc EXCEPT ![p] = "exec"]
    /\ UNCHANGED <<tasks, seq, req, err, result, rows, resp, served>>

\* application.mu.Lock() before the handler's statement.
HandlerLock(p) ==
    /\ pc[p] = "lock"
    /\ mu = FALSE
    /\ mu' = TRUE
    /\ pc' = [pc EXCEPT ![p] = "exec"]
    /\ UNCHANGED <<tasks, seq, req, err, result, rows, resp, served>>

\* db.Exec returned an error: the statement is not applied; after
\* mu.Unlock() the err check ends the request with 500.
ExecFails(p) ==
    /\ pc[p] = "exec"
    /\ mu' = FALSE
    /\ Return(p, StatusInternalServerError, StoreError)
    /\ UNCHANGED <<tasks, seq, served>>

\* The statement of handler h is applied under the lock with result res,
\* then mu.Unlock(), err is nil and renderTasks is called.
Executed(p, h, res) ==
    /\ pc[p] = "exec"
    /\ req[p].handler = h
    /\ result' = [result EXCEPT ![p] = res]
    /\ mu' = FALSE
    /\ req' = [req EXCEPT ![p] = RenderCall(req[p])]
    /\ pc' = [pc EXCEPT ![p] = "rlock"]
    /\ UNCHANGED <<err, rows, resp, served>>

\* AddTask: db.Exec("INSERT INTO tasks (task) VALUES (?)", task)
ExecInsert(p) ==
    /\ Executed(p, "AddTask", [LastInsertId |-> NextRowId(tasks, seq), RowsAffected |-> 1])
    /\ tasks' = InsertTask(tasks, seq, req[p].task)
    /\ seq' = NextRowId(tasks, seq)

\* CompleteTask: db.Exec("UPDATE tasks SET completed = ? WHERE id = ?", completed, taskID)
ExecComplete(p) ==
    /\ Executed(p, "CompleteTask",
                [LastInsertId |-> 0, RowsAffected |-> Affected(tasks, req[p].taskId)])
    /\ tasks' = UpdateCompleted(tasks, req[p].completed, req[p].taskId)
    /\ seq' = seq

\* DeleteTask: db.Exec("DELETE FROM tasks WHERE id = ?", taskID)
ExecDelete(p) ==
    /\ Executed(p, "DeleteTask",
                [LastInsertId |-> 0, RowsAffected |-> Affected(tasks, req[p].taskId)])
    /\ tasks' = DeleteRow(tasks, req[p].taskId)
    /\ seq' = seq

\* EditTask: db.Exec("UPDATE tasks SET task = ? WHERE id = ?", newTask, taskID)
ExecEdit(p) ==
    /\ Executed(p, "EditTask",
                [LastInsertId |-> 0, RowsAffected |-> Affected(tasks, req[p].taskId)])
    /\ tasks' = UpdateTask(tasks, req[p].task, req[p].taskId)
    /\ seq' = seq

\* renderTasks: application.mu.Lock()
RenderLock(p) ==
    /\ pc[p] = "rlock"
    /\ mu = FALSE
    /\ mu' = TRUE
    /\ pc' = [pc EXCEPT ![p] = "query"]
    /\ UNCHANGED <<tasks, seq, req, err, result, rows, resp, served>>

\* What db.Query and the rows.Next/Scan loop read for the handler's subset.
Fetched(p) == ScanRows(SelectByCompleted(tasks, req[p].showCompleted))

\* renderTasks under the lock: the query, the scan loop and ExecuteTemplate
\* succeed and the fragment is written.
Query(p) ==
    /\ pc[p] = "query"
    /\ rows' = [rows EXCEPT ![p] = Fetched(p)]
    /\ resp' = [resp EXCEPT ![p] = [status |-> StatusOK, body |-> RenderTaskList(Fetched(p)), error |-> ""]]
    /\ pc' = [pc EXCEPT ![p] = "runlock"]
    /\ UNCHANGED <<tasks, seq, mu, req, err, result, served>>

\* Variant: the error path returns with an explicit return and no deferred Unlock.
QueryFailsNoUnlock(p) ==
    /\ pc[p] = "query"
    /\ Return(p, StatusInternalServerError, StoreError)
    /\ UNCHANGED <<tasks, seq, mu, served>>

\* renderTasks: db.Query or rows.Scan fails: http.Error 500 and return.
QueryFails(p) ==
    /\ pc[p] = "query"
    /\ err' = [err EXCEPT ![p] = StoreError]
    /\ resp' = [resp EXCEPT ![p] = [status |-> StatusInternalServerError,
                                     body |-> <<>>, error |-> StoreError]]
    /\ pc' = [pc EXCEPT ![p] = "runlock"]
    /\ UNCHANGED <<tasks, seq, mu, req, result, rows, served>>

\* renderTasks: ExecuteTemplate fails after writing n items; the status is
\* 200 once anything was written, 500 when http.Error writes the header.
RenderFails(p, n) ==
    /\ pc[p] = "query"
    /\ n \in 0..Len(Fetched(p))
    /\ rows' = [rows EXCEPT ![p] = Fetched(p)]
    /\ err' = [err EXCEPT ![p] = RenderError]
    /\ \E status \in {StatusOK, StatusInternalServerError} :
          resp' = [resp EXCEPT ![p] =
                     [status |-> status,
                      body |-> RenderTaskList(SubSeq(Fetched(p), 1, n)),
                      error |-> RenderError]]
    /\ pc' = [pc EXCEPT ![p] = "runlock"]
    /\ UNCHANGED <<tasks, seq, mu, req, result, served>>

\* renderTasks: the deferred application.mu.Unlock(); the handler returns
\* and the server sends the response.
RenderUnlock(p) ==
    /\ pc[p] = "runlock"
    /\ mu' = FALSE
    /\ pc' = [pc EXCEPT ![p] = "idle"]
    /\ req' = [req EXCEPT ![p] = NoReq]
    /\ err' = [err EXCEPT ![p] = Nil]
    /\ result' = [result EXCEPT ![p] = NoResult]
    /\ rows' = [rows EXCEPT ![p] = <<>>]
    /\ resp' = [resp EXCEPT ![p] = NoResp]
    /\ UNCHANGED <<tasks, seq, served>>

\* The server sends the response of a handler that returned early; the goroutine ends.
Finish(p) ==
    /\ pc[p] = "return"
    /\ pc' = [pc EXCEPT ![p] = "idle"]
    /\ resp' = [resp EXCEPT ![p] = NoResp]
    /\ UNCHANGED <<tasks, seq, mu, req, err, result, rows, served>>

(* --------------------------- specification ----------------------------- *)

Receive(p) ==
    \/ \E m \in Methods, w \in BOOLEAN, t \in Texts : AddTask(p, m, w, t)
    \/ \E m \in Methods, w \in BOOLEAN, i \in TaskIds, c \in Flags, s \in Flags :
          CompleteTask(p, m, w, i, c, s)
    \/ \E m \in Methods, w \in BOOLEAN, i \in TaskIds, s \in Flags :
          DeleteTask(p, m, w, i, s)
    \/ \E m \in Methods, w \in BOOLEAN, i \in TaskIds, t \in Texts, s \in Flags :
          EditTask(p, m, w, i, t, s)
    \/ GetTasks(p)
    \/ GetCompletedTasks(p)

Acquire(p) == HandlerLock(p) \/ RenderLock(p)

Run(p) ==
    \/ ExecInsert(p) \/ ExecComplete(p) \/ ExecDelete(p) \/ ExecEdit(p) \/ ExecFails(p)
    \/ Query(p) \/ QueryFails(p) \/ (\E n \in 0..MaxId : RenderFails(p, n))
    \/ RenderUnlock(p)
    \/ Finish(p)

Next == \E p \in Procs : Receive(p) \/ Acquire(p) \/ Run(p)

Spec == Init /\ [][Next]_vars

\* Go schedules every runnable goroutine; sync.Mutex hands the lock to a
\* goroutine that keeps waiting (starvation mode), so a waiter is not
\* passed over forever.
Fairness == \A p \in Procs : WF_vars(Run(p)) /\ SF_vars(Acquire(p))

\* The state once the page's first list request (GET /getTasks on the empty
\* store) has been served.
InitServed ==
    /\ tasks = {}
    /\ seq = 0
    /\ mu = FALSE
    /\ pc = [p \in Procs |-> "idle"]
    /\ req = [p \in Procs |-> NoReq]
    /\ err = [p \in Procs |-> Nil]
    /\ result = [p \in Procs |-> NoResult]
    /\ rows = [p \in Procs |-> <<>>]
    /\ resp = [p \in Procs |-> NoResp]
    /\ served = 1

FairSpec == InitServed /\ [][Next]_vars /\ Fairness

TypeOK ==
    /\ seq \in 0..MaxId
    /\ mu \in BOOLEAN
    /\ pc \in [Procs -> Labels]
    /\ served \in 0..MaxReq
    /\ \A r \in tasks : r.id \in 1..MaxId /\ r.task \in Texts /\ r.completed \in {0, 1}

(* ------------------------------ properties ----------------------------- *)

\* The active and the completed list as a list request reads them.
ActiveList(t) == ScanRows(SelectByCompleted(t, FALSE))
CompletedList(t) == ScanRows(SelectByCompleted(t, TRUE))
ListIds(l) == {l[i].ID : i \in 1..Len(l)}

\* Goroutines inside a locked store section.
Holders == {p \in Procs : pc[p] \in {"exec", "query", "runlock"}}

\* The stored rows a taskId form value addresses.
Addressed(t, taskId) == {r \in t : IdMatches(r.id, taskId)}

\* C1: a successful add-task insert adds exactly one record: the active list
\* grows by exactly 1, the completed list is unchanged, and the new record
\* has the request's text and completed=false.
C1_AddGrowsActiveByOne ==
    [][\A p \in Procs : ExecInsert(p) =>
          /\ Len(ActiveList(tasks')) = Len(ActiveList(tasks)) + 1
          /\ CompletedList(tasks') = CompletedList(tasks)
          /\ tasks \subseteq tasks'
          /\ Cardinality(tasks') = Cardinality(tasks) + 1
          /\ \E i \in 1..Len(ActiveList(tasks')) :
                /\ ActiveList(tasks')[i].ID \notin RowIds(tasks)
                /\ ActiveList(tasks')[i].Task = req[p].task
                /\ ActiveList(tasks')[i].Completed = FALSE
                /\ req[p].task # ""]_vars

\* An insert has just been applied to a store that already held a task.
C1_Witness ==
    \E p \in Procs :
        /\ req[p].handler = "AddTask"
        /\ pc[p] = "rlock"
        /\ Cardinality(tasks) = 2
        /\ \E r \in tasks : r.id = result[p].LastInsertId /\ r.completed = 0

\* C2: an add-task request with empty task, or an edit-task request with
\* empty newTask, is answered with 400 and leaves the store unchanged, and
\* no stored task ever has empty text.
C2_EmptyTextRejected ==
    /\ [](\A r \in tasks : r.task # "")
    /\ [][\A p \in Procs :
            (\/ AddTask(p, "POST", TRUE, "")
             \/ \E i \in TaskIds, f \in Flags : EditTask(p, "POST", TRUE, i, "", f))
            => /\ resp'[p].status = StatusBadRequest
               /\ pc'[p] = "return"
               /\ tasks' = tasks
               /\ seq' = seq]_vars

\* A request was just rejected with 400 for its empty text while tasks are stored.
C2_Witness ==
    \E p \in Procs :
        /\ pc[p] = "return"
        /\ resp[p] = [status |-> StatusBadRequest, body |-> <<>>, error |-> "Task cannot be empty"]
        /\ tasks # {}

\* C3: a complete-task update on an existing id with target value v leaves
\* that task in exactly the list for v, changes no other task, and applying
\* the same update again leaves the store as it is after the first.
C3_CompleteSetsFlagIdempotent ==
    [][\A p \in Procs : (ExecComplete(p) /\ Addressed(tasks, req[p].taskId) # {}) =>
          \A r \in Addressed(tasks, req[p].taskId) :
             /\ r.id \in ListIds(CompletedList(tasks')) <=> req[p].completed
             /\ r.id \in ListIds(ActiveList(tasks')) <=> ~req[p].completed
             /\ \E n \in tasks' : n.id = r.id /\ n.task = r.task
             /\ {o \in tasks' : o.id # r.id} = {o \in tasks : o.id # r.id}
             /\ Cardinality(tasks') = Cardinality(tasks)
             /\ UpdateCompleted(tasks', req[p].completed, req[p].taskId) = tasks']_vars

\* A complete-task update has just been applied to an existing task as the
\* last of the requests, leaving a completed task in the store.
C3_Witness ==
    \E p \in Procs :
        /\ req[p].handler = "CompleteTask"
        /\ pc[p] = "rlock"
        /\ result[p].RowsAffected = 1
        /\ \E r \in tasks : r.completed = 1
        /\ served = MaxReq

\* C4: a complete-task request whose taskId matches no stored record changes
\* nothing in the store, is not an error, and is answered with the rendered
\* list for the requested showCompleted subset.
C4_CompleteMissingIdIsNoOp ==
    /\ [][\A p \in Procs : (ExecComplete(p) /\ Addressed(tasks, req[p].taskId) = {}) =>
            /\ tasks' = tasks
            /\ seq' = seq
            /\ err'[p] = Nil
            /\ pc'[p] = "rlock"
            /\ result'[p].RowsAffected = 0
            /\ req'[p].showCompleted = req[p].showCompleted]_vars
    /\ [](\A p \in Procs :
            (/\ pc[p] = "runlock"
             /\ req[p].handler = "CompleteTask"
             /\ result[p].RowsAffected = 0
             /\ err[p] = Nil)
            => /\ resp[p].status = StatusOK
               /\ Len(resp[p].body) =
                     Cardinality({r \in tasks : (r.completed = 1) = req[p].showCompleted})
               /\ \A i \in 1..Len(resp[p].body) :
                     \E r \in tasks :
                        /\ (r.completed = 1) = req[p].showCompleted
                        /\ resp[p].body[i].taskId = FormatInt(r.id)
                        /\ resp[p].body[i].text = r.task)

\* A complete-task request for an id that matches nothing has been answered
\* with a fragment while the store holds a task.
C4_Witness ==
    \E p \in Procs :
        /\ pc[p] = "runlock"
        /\ req[p].handler = "CompleteTask"
        /\ result[p].RowsAffected = 0
        /\ resp[p].status = StatusOK
        /\ Len(resp[p].body) = 1

\* C5: a delete removes the addressed id from both lists and changes no
\* other record; an id that was assigned and is gone never comes back,
\* whatever follows; deleting an absent id changes nothing and is no error.
C5_DeleteIsPermanent ==
    /\ [](RowIds(tasks) \subseteq 1..seq)
    /\ [][\A p \in Procs : ExecDelete(p) =>
            /\ \A r \in Addressed(tasks, req[p].taskId) :
                  r.id \notin ListIds(ActiveList(tasks')) \cup ListIds(CompletedList(tasks'))
            /\ tasks' = tasks \ Addressed(tasks, req[p].taskId)
            /\ err'[p] = Nil
            /\ pc'[p] = "rlock"
            /\ Addressed(tasks, req[p].taskId) = {} => tasks' = tasks]_vars
    /\ [][\A id \in 1..seq :
            id \notin RowIds(tasks) =>
               id \notin ListIds(ActiveList(tasks')) \cup ListIds(CompletedList(tasks'))]_vars

\* A second delete of an id has just run: the id was assigned, is gone, and
\* the statement touched no row.
C5_Witness ==
    \E p \in Procs :
        /\ req[p].handler = "DeleteTask"
        /\ pc[p] = "rlock"
        /\ result[p].RowsAffected = 0
        /\ seq = 1
        /\ tasks = {}

\* C6: an edit on an existing id with non-empty newTask sets that task's
\* text to exactly newTask and leaves its id, its completed flag and every
\* other task unchanged; an edit with empty newTask is rejected and the
\* store stays as it was.
C6_EditReplacesTextOnly ==
    /\ [][\A p \in Procs : (ExecEdit(p) /\ Addressed(tasks, req[p].taskId) # {}) =>
            \A r \in Addressed(tasks, req[p].taskId) :
               /\ req[p].task # ""
               /\ [id |-> r.id, task |-> req[p].task, completed |-> r.completed] \in tasks'
               /\ {o \in tasks' : o.id # r.id} = {o \in tasks : o.id # r.id}
               /\ Cardinality(tasks') = Cardinality(tasks)]_vars
    /\ [][\A p \in Procs, i \in TaskIds, f \in Flags :
            EditTask(p, "POST", TRUE, i, "", f) =>
               /\ resp'[p] = [status |-> StatusBadRequest, body |-> <<>>, error |-> "Task cannot be empty"]
               /\ tasks' = tasks
               /\ pc'[p] = "return"]_vars

\* An edit has just changed the text of a completed task.
C6_Witness ==
    \E p \in Procs :
        /\ req[p].handler = "EditTask"
        /\ pc[p] = "rlock"
        /\ result[p].RowsAffected = 1
        /\ \E r \in tasks : r.task = "b" /\ r.completed = 1

\* C7: ids are unique among stored records, no step changes the id of an
\* existing record, and an id once assigned is never given to a later task,
\* also after the task holding it (the highest one included) was deleted.
C7_IdsUniqueNeverReused ==
    /\ [](\A r1, r2 \in tasks : r1.id = r2.id => r1 = r2)
    /\ [](RowIds(tasks) \subseteq 1..seq)
    /\ [][/\ seq' >= seq
          /\ \A id \in RowIds(tasks') \ RowIds(tasks) :
                /\ id > seq
                /\ tasks \subseteq tasks'
                /\ Cardinality(tasks') = Cardinality(tasks) + 1
          /\ Cardinality(tasks') <= Cardinality(tasks) =>
                RowIds(tasks') \subseteq RowIds(tasks)]_vars

\* Id 1 was assigned and deleted, and the only stored task has id 2.
C7_Witness == RowIds(tasks) = {2} /\ seq = 2

\* C8: at most one goroutine is inside a locked store section at any
\* moment, and the mutex is held exactly when one is.
C8_MutualExclusion ==
    /\ Cardinality(Holders) <= 1
    /\ mu <=> Holders # {}

\* One goroutine is inside its statement section while the other waits to
\* enter renderTasks.
C8_Witness ==
    \E p, q \in Procs : p # q /\ pc[p] = "exec" /\ pc[q] = "rlock" /\ mu

Mutating == {"AddTask", "CompleteTask", "EditTask", "DeleteTask"}

\* The fragment in the response of p shows exactly the stored tasks of the
\* subset flag, newest id first.
ShowsSubset(p, flag) ==
    LET subset == {r \in tasks : (r.completed = 1) = flag}
        body == resp[p].body
    IN /\ resp[p].status = StatusOK
       /\ Len(body) = Cardinality(subset)
       /\ \A i \in 1..Len(body) :
             \E r \in subset : /\ body[i].taskId = FormatInt(r.id)
                               /\ body[i].text = r.task
                               /\ body[i].checked = flag
       /\ \A i, j \in 1..Len(body) :
             i < j => ToNumeric(body[j].taskId) # ToNumeric(body[i].taskId)
                      /\ \A a \in ToNumeric(body[i].taskId), b \in ToNumeric(body[j].taskId) : a > b

\* C9 as stated: no other request's mutation is applied between a
\* request's own mutation and its re-query, and the fragment of a
\* successful add contains the task it created.
C9_FragmentFollowsOwnMutation ==
    /\ [][\A p \in Procs :
            (req[p].handler \in Mutating /\ pc[p] = "rlock") => tasks' = tasks]_vars
    /\ [](\A p \in Procs :
            (pc[p] = "runlock" /\ req[p].handler = "AddTask" /\ err[p] = Nil) =>
               \E i \in 1..Len(resp[p].body) :
                  resp[p].body[i].taskId = FormatInt(result[p].LastInsertId))

\* C9 amended: the fragment of a successful mutating request is the
\* requested subset of the store as it stands at the request's re-query,
\* which runs after its own mutation; for an add it is the active list, and
\* it contains the created task exactly when that task is still stored and
\* still active at the re-query.
C9_FragmentIsSubsetAtRequery ==
    \A p \in Procs :
        (pc[p] = "runlock" /\ req[p].handler \in Mutating /\ err[p] = Nil) =>
           /\ ShowsSubset(p, req[p].showCompleted)
           /\ result[p].RowsAffected \in {0, 1}
           /\ req[p].handler = "AddTask" =>
                 /\ req[p].showCompleted = FALSE
                 /\ result[p].LastInsertId \in 1..seq
                 /\ (\E i \in 1..Len(resp[p].body) :
                        resp[p].body[i].taskId = FormatInt(result[p].LastInsertId))
                    <=> (\E r \in tasks : r.id = result[p].LastInsertId /\ r.completed = 0)

\* An add-task request has its fragment, and the fragment contains the task
\* it created next to an older one.
C9_Witness ==
    \E p \in Procs :
        /\ pc[p] = "runlock"
        /\ req[p].handler = "AddTask"
        /\ err[p] = Nil
        /\ Len(resp[p].body) = 2
        /\ resp[p].body[1].taskId = FormatInt(result[p].LastInsertId)

\* C10: under fair scheduling every request finishes (each goroutine is
\* idle again after any request it runs); the lock is released on every
\* path, so it is free whenever no request is in progress, and while a
\* request is in progress some goroutine can take a step.
C10_RequestsFinish ==
    /\ []((\A p \in Procs : pc[p] = "idle") => mu = FALSE)
    /\ []((Holders = {}) => mu = FALSE)
    /\ []((\E p \in Procs : pc[p] # "idle") =>
             \E q \in Procs : ENABLED (Acquire(q) \/ Run(q)))
    /\ \A p \in Procs : []<>(pc[p] = "idle")

\* One request waits for the lock while another holds it after a failed query.
C10_Witness ==
    \E p, q \in Procs :
        /\ p # q
        /\ pc[p] = "runlock"
        /\ err[p] = StoreError
        /\ pc[q] \in {"lock", "rlock"}
        /\ mu

====
